---------------------------- MODULE Spec2Model ----------------------------
(***************************************************************************)
(* Model of the research aggregation and source-ranking pipeline of        *)
(* ArticleGeneration (src/unnamed/part_001): start(), research(),          *)
(* executeSearch(), extractReferences(), extractDomain(),                  *)
(* deduplicateReferences(), scoreReferences(), calculateSourceScore(),     *)
(* buildKnowledgeBase() and saveToFiles().                                 *)
(*                                                                         *)
(* Representation of JavaScript values:                                    *)
(*  - a string that the code inspects (url, hostname, domain) is a         *)
(*    sequence of symbols; a symbol is one character ("w", "W", ".", "/")  *)
(*    or a run of letters that contains none of these characters ("gov"),  *)
(*    and the scheme prefix "https://" is one symbol;                      *)
(*  - the content of a reference is represented by its length, the only    *)
(*    thing the code reads from it (lines 229 and 242);                    *)
(*  - an optional field is a sequence of length at most one;               *)
(*  - a date string is a record: kind "date" parses to day number t,       *)
(*    kind "garbage" parses to NaN, kind "empty" is the empty string;      *)
(*  - time is counted in days, scores in units of 1/500 (one character     *)
(*    of content), so that every score is an integer.                      *)
(***************************************************************************)
EXTENDS Integers, Sequences, FiniteSets, TLC

\* ------------------------------------------------------------------ strings

None == <<>>

Some(x) == <<x>>

\* String.prototype.toLowerCase on one symbol.
LowerSym(c) ==
  CASE c = "W" -> "w"
    [] c = "A" -> "a"
    [] c = "B" -> "b"
    [] c = "X" -> "x"
    [] c = "Example" -> "example"
    [] c = "HTTPS://" -> "https://"
    [] OTHER -> c

\* String.prototype.toLowerCase.
ToLowerCase(s) == [i \in 1..Len(s) |-> LowerSym(s[i])]

\* Whether pat occurs in s at position i (1-based).
OccursAt(s, pat, i) ==
  /\ i >= 1
  /\ i + Len(pat) - 1 <= Len(s)
  /\ \A k \in 1..Len(pat) : s[i + k - 1] = pat[k]

\* String.prototype.includes.
Includes(s, pat) == \E i \in 1..(Len(s) + 1) : OccursAt(s, pat, i)

\* String.prototype.replace(pat, "") with a string pattern: the first
\* occurrence of pat, wherever it is, is removed.
ReplaceFirst(s, pat) ==
  IF Includes(s, pat)
  THEN LET i == CHOOSE j \in 1..(Len(s) + 1) :
                  /\ OccursAt(s, pat, j)
                  /\ \A k \in 1..(j - 1) : ~OccursAt(s, pat, k)
       IN SubSeq(s, 1, i - 1) \o SubSeq(s, i + Len(pat), Len(s))
  ELSE s

\* String.prototype.replace(/\/$/, ""): one trailing slash is removed.
StripTrailingSlash(s) ==
  IF Len(s) > 0 /\ s[Len(s)] = "/" THEN SubSeq(s, 1, Len(s) - 1) ELSE s

\* ---------------------------------------------------------------------- URL

WWW_DOT == <<"w", "w", "w", ".">>

UNKNOWN == <<"unknown">>

\* Position of the first "/" of s at or after position i, Len(s) + 1 if none.
FirstSlash(s, i) ==
  IF \E j \in i..Len(s) : s[j] = "/"
  THEN CHOOSE j \in i..Len(s) : s[j] = "/" /\ \A k \in i..(j - 1) : s[k] # "/"
  ELSE Len(s) + 1

\* new URL(url) succeeds: a scheme followed by a non-empty host.
URLParses(url) ==
  /\ Len(url) >= 2
  /\ LowerSym(url[1]) = "https://"
  /\ FirstSlash(url, 2) > 2

\* new URL(url).hostname: the host, which the URL parser lowercases.
URLHostname(url) == ToLowerCase(SubSeq(url, 2, FirstSlash(url, 2) - 1))

\* extractDomain (lines 530-536): the first "www." of the hostname is removed;
\* a url that does not parse gives the sentinel.
extractDomain(url) ==
  IF URLParses(url) THEN ReplaceFirst(URLHostname(url), WWW_DOT) ELSE UNKNOWN

\* -------------------------------------------------------- extractReferences

\* if (item.url): undefined and the empty string are falsy.
HasUrl(item) == Len(item.url) = 1 /\ Len(item.url[1]) > 0

\* The reference built from one search result (lines 514-521).
MakeReference(item) ==
  [title         |-> IF item.title = None THEN "Untitled" ELSE item.title[1],
   url           |-> item.url[1],
   content       |-> IF item.text = None THEN 0 ELSE item.text[1],
   domain        |-> extractDomain(item.url[1]),
   publishedDate |-> item.publishedDate]

RECURSIVE extractReferences(_)
\* extractReferences (lines 492-528) over the search results of all steps, in
\* order: a result without url is skipped.
extractReferences(items) ==
  IF items = <<>> THEN <<>>
  ELSE (IF HasUrl(Head(items)) THEN <<MakeReference(Head(items))>> ELSE <<>>)
       \o extractReferences(Tail(items))

\* ---------------------------------------------------- deduplicateReferences

\* A faulty key that keeps the case of the url.
DedupKeyCaseSensitive(url) == StripTrailingSlash(url)

\* The deduplication key (line 200).
DedupKey(url) == StripTrailingSlash(ToLowerCase(url))

RECURSIVE DedupFilter(_, _)
\* refs.filter with the set of keys seen so far (lines 199-204).
DedupFilter(refs, seen) ==
  IF refs = <<>> THEN <<>>
  ELSE LET key == DedupKey(Head(refs).url)
       IN IF key \in seen
          THEN DedupFilter(Tail(refs), seen)
          ELSE <<Head(refs)>> \o DedupFilter(Tail(refs), seen \cup {key})

deduplicateReferences(refs) == DedupFilter(refs, {})

\* ------------------------------------------------------ calculateSourceScore

CONTENT_UNIT == 500

DAYS_PER_YEAR == 365

KB_TOP == 15

PREFERRED_DOMAINS ==
  << <<".", "gov">>, <<".", "edu">>, <<"britannica", ".", "com">>,
     <<"reuters", ".", "com">>, <<"bbc", ".", "com">>,
     <<"nytimes", ".", "com">>, <<"theguardian", ".", "com">>,
     <<"apnews", ".", "com">> >>

\* Lines 221-226: +10 once if any preferred domain occurs in domain or url.
AuthorityBonus(ref) ==
  IF \E k \in 1..Len(PREFERRED_DOMAINS) :
       \/ Includes(ref.domain, PREFERRED_DOMAINS[k])
       \/ Includes(ref.url, PREFERRED_DOMAINS[k])
  THEN 10 * CONTENT_UNIT
  ELSE 0

\* Line 229: Math.min(content.length / 500, 5).
SubstanceBonus(ref) ==
  IF ref.content < 5 * CONTENT_UNIT THEN ref.content ELSE 5 * CONTENT_UNIT

\* A faulty recency that takes a date that does not parse for a date of today.
RecencyBonusUnparsedFresh(ref, clock) ==
  IF ref.publishedDate = None \/ ref.publishedDate[1].kind = "empty" THEN 0
  ELSE LET age == IF ref.publishedDate[1].kind = "date"
                  THEN clock - ref.publishedDate[1].t ELSE 0
       IN IF age < 1 * DAYS_PER_YEAR THEN 5 * CONTENT_UNIT
          ELSE IF age < 3 * DAYS_PER_YEAR THEN 3 * CONTENT_UNIT
          ELSE IF age < 5 * DAYS_PER_YEAR THEN 1 * CONTENT_UNIT
          ELSE 0

\* Lines 232-239.  A date that does not parse gives NaN, and every comparison
\* with NaN is false.  yearsOld < n is (clock - t) < n * 365 days.
RecencyBonus(ref, clock) ==
  IF ref.publishedDate = None \/ ref.publishedDate[1].kind = "empty" THEN 0
  ELSE IF ref.publishedDate[1].kind # "date" THEN 0
  ELSE LET age == clock - ref.publishedDate[1].t
       IN IF age < 1 * DAYS_PER_YEAR THEN 5 * CONTENT_UNIT
          ELSE IF age < 3 * DAYS_PER_YEAR THEN 3 * CONTENT_UNIT
          ELSE IF age < 5 * DAYS_PER_YEAR THEN 1 * CONTENT_UNIT
          ELSE 0

\* A faulty penalty that falls on the contents that are not short.
BrevityPenaltyInverted(ref) == IF ref.content >= 200 THEN 3 * CONTENT_UNIT ELSE 0

\* Line 242.
BrevityPenalty(ref) == IF ref.content < 200 THEN 3 * CONTENT_UNIT ELSE 0

\* calculateSourceScore (lines 217-245), in units of 1/500; clock is the value
\* Date.now() returns during the call.
calculateSourceScore(ref, clock) ==
  AuthorityBonus(ref) + SubstanceBonus(ref) + RecencyBonus(ref, clock)
    - BrevityPenalty(ref)

\* ----------------------------------------------------------- scoreReferences

\* A faulty scoring that rescales every score against the best of its batch.
ScoredPairsRelative(refs, clocks) ==
  LET raw == [i \in 1..Len(refs) |-> calculateSourceScore(refs[i], clocks[i])]
      best == CHOOSE b \in {raw[i] : i \in 1..Len(refs)} :
                \A i \in 1..Len(refs) : raw[i] <= b
  IN [i \in 1..Len(refs) |-> [ref |-> refs[i], score |-> raw[i] - best]]

\* Lines 209-212: each reference with its score; clocks[i] is the clock
\* reading during the i-th call.
ScoredPairs(refs, clocks) ==
  [i \in 1..Len(refs) |->
     [ref |-> refs[i], score |-> calculateSourceScore(refs[i], clocks[i])]]

RECURSIVE InsertByScoreUnstable(_, _)
\* A faulty insertion that puts an element before the elements it ties with.
InsertByScoreUnstable(sorted, p) ==
  IF sorted = <<>> THEN <<p>>
  ELSE IF Head(sorted).score > p.score
       THEN <<Head(sorted)>> \o InsertByScoreUnstable(Tail(sorted), p)
       ELSE <<p>> \o sorted

\* The comparator of line 213, (a, b) => b.score - a.score, is negative
\* (a before b) when a scores higher.
RECURSIVE InsertByScore(_, _)
InsertByScore(sorted, p) ==
  IF sorted = <<>> THEN <<p>>
  ELSE IF Head(sorted).score >= p.score
       THEN <<Head(sorted)>> \o InsertByScore(Tail(sorted), p)
       ELSE <<p>> \o sorted

RECURSIVE SortFrom(_, _)
SortFrom(pairs, sorted) ==
  IF pairs = <<>> THEN sorted
  ELSE SortFrom(Tail(pairs), InsertByScore(sorted, Head(pairs)))

\* Array.prototype.sort with that comparator (line 213): a stable sort.
SortByScore(pairs) == SortFrom(pairs, <<>>)

\* The last map of scoreReferences (line 214).
RefsOf(sorted) == [i \in 1..Len(sorted) |-> sorted[i].ref]

\* scoreReferences (lines 207-215) up to its sort.
SortedPairs(refs, clocks) == SortByScore(ScoredPairs(refs, clocks))

\* -------------------------------------------------------- buildKnowledgeBase

Take(s, n) == SubSeq(s, 1, IF Len(s) < n THEN Len(s) ELSE n)

\* One <source> block of the template (lines 253-261).
SourceBlock(ref, i) ==
  [tag |-> "source", id |-> i, title |-> ref.title, url |-> ref.url,
   domain |-> ref.domain, content |-> ref.content]

\* The "\n\n" that join puts between two blocks (line 263).
Separator ==
  [tag |-> "sep", id |-> 0, title |-> "", url |-> <<>>, domain |-> <<>>,
   content |-> 0]

RECURSIVE Join(_)
Join(blocks) ==
  IF Len(blocks) <= 1 THEN blocks
  ELSE <<Head(blocks), Separator>> \o Join(Tail(blocks))

\* A faulty assembly that leaves out the slice(0, 15).
buildKnowledgeBaseUncapped(refs) ==
  IF Len(refs) = 0 THEN <<>>
  ELSE Join([i \in 1..Len(refs) |-> SourceBlock(refs[i], i)])

\* A faulty assembly that renders a placeholder block when there is no source.
buildKnowledgeBasePlaceholder(refs) ==
  IF Len(refs) = 0 THEN <<[Separator EXCEPT !.tag = "source", !.id = 1]>>
  ELSE LET top == Take(refs, KB_TOP)
       IN Join([i \in 1..Len(top) |-> SourceBlock(top[i], i)])

\* buildKnowledgeBase (lines 247-264); the empty string is the empty sequence.
buildKnowledgeBase(refs) ==
  IF Len(refs) = 0 THEN <<>>
  ELSE LET top == Take(refs, KB_TOP)
       IN Join([i \in 1..Len(top) |-> SourceBlock(top[i], i)])

\* --------------------------------------------------------------- saveToFiles

\* A faulty export that is cut like the knowledge base.
refsForExportCapped(references) ==
  LET top == Take(references, KB_TOP)
  IN [i \in 1..Len(top) |->
        [id |-> i, title |-> top[i].title, url |-> top[i].url,
         domain |-> top[i].domain, publishedDate |-> top[i].publishedDate]]

\* A faulty export that numbers the references from the end of the list.
refsForExportReversed(references) ==
  LET n == Len(references)
  IN [i \in 1..n |->
        [id |-> i, title |-> references[n + 1 - i].title,
         url |-> references[n + 1 - i].url,
         domain |-> references[n + 1 - i].domain,
         publishedDate |-> references[n + 1 - i].publishedDate]]

\* refsForExport (lines 348-354).
refsForExport(references) ==
  [i \in 1..Len(references) |->
     [id |-> i, title |-> references[i].title, url |-> references[i].url,
      domain |-> references[i].domain,
      publishedDate |-> references[i].publishedDate]]

\* ------------------------------------------------------------------ promises

Fulfilled(v) == [status |-> "fulfilled", value |-> v]

Rejected == [status |-> "rejected", value |-> <<>>]

Pending == [status |-> "pending", value |-> <<>>]

\* executeSearch (lines 156-173): rejects when the search call throws,
\* otherwise the references extracted from its results.
executeSearch(outcome) ==
  IF outcome.kind = "error" THEN Rejected
  ELSE Fulfilled(extractReferences(outcome.items))

\* A faulty search promise without the catch.
NoCatch(p) == p

\* .catch(() => [] as Reference[]) of line 140.
CatchEmpty(p) == IF p.status = "rejected" THEN Fulfilled(<<>>) ELSE p

\* One element of searchPromises (lines 139-141).
SearchPromise(outcome) == CatchEmpty(executeSearch(outcome))

RECURSIVE Flat(_)
\* Array.prototype.flat (line 144).
Flat(lists) == IF lists = <<>> THEN <<>> ELSE Head(lists) \o Flat(Tail(lists))

\* A faulty join that collects the values in the order of their arrival.
PromiseAllPush(values, index, nth, x) == [values EXCEPT ![nth] = x]

\* Promise.all (line 143) as a promise fulfils: its value x is stored at the
\* index the promise has in searchPromises; nth counts the promises fulfilled
\* so far, this one included.
PromiseAllStore(values, index, nth, x) == [values EXCEPT ![index] = x]

\* A faulty join that fulfils with the first of its promises (Promise.any).
PromiseAnyFulfilled(promises) ==
  \E q \in DOMAIN promises : promises[q].status = "fulfilled"

\* Promise.all (line 143) fulfils once every promise of searchPromises has.
PromiseAllFulfilled(promises) ==
  \A q \in DOMAIN promises : promises[q].status = "fulfilled"

\* A faulty generation promise that recovers like a search promise does.
GenerationPromiseCaught(call) == "fulfilled"

\* The promise a generation call hands to Promise.all (lines 119-122), once
\* the call has ended: no catch is attached to it.
GenerationPromise(call) == IF call = "error" THEN "rejected" ELSE "fulfilled"

\* ------------------------------------------------------------------- bounds

\* Search results per query.
MaxResults == 6

\* Day number of the first clock reading.
Now0 == 2000

\* Days by which the clock advances in one step.
TickDays == 1

\* Clock steps in one behaviour.
MaxTicks == 1

\* Symbols of a hostname (SpecDomain).
MaxHost == 6

\* Search results of query 1 (SpecPipeline).
MaxLen == 3

\* Search results of query 1 (SpecScore).
MaxBatch == 2

\* Calls of start() in one behaviour (SpecScore).
MaxRuns == 2

\* Longest content of a search result (SpecLength).
MaxContent == 3000

\* getSearchQueries (lines 175-195) returns three queries for every category.
NumQueries == 3

Queries == 1..NumQueries

Gens == {"infobox", "article"}

MaxNow == Now0 + MaxTicks * TickDays

\* No research() sees more references than this.
MaxRefs == NumQueries * MaxResults

\* --------------------------------------------------------------------- state

VARIABLES
  pc,            \* where start() is: "start", "await_search" (line 143),
                 \* "flatten" (research() resumes at line 144), "researched"
                 \* (start() resumes at line 115), "await_generate" (line
                 \* 119), "save_dir", "save_facts", "save_refs",
                 \* "save_content" (lines 339-362), "done", "failed"
  startError,    \* the rejection reason of start(), if it failed
  search,        \* per query, what the search call yields
  promise,       \* research(): searchPromises
  arrival,       \* the queries in the order their promises settled
  results,       \* research(): the array Promise.all collects
  now,           \* Date.now(), in days
  allRefs,       \* research(): results.flat()
  uniqueRefs,    \* research(): deduplicateReferences(allRefs)
  scored,        \* scoreReferences(): the sorted {ref, score} array
  references,    \* start(): the references research() returned
  knowledgeBase, \* start(): the knowledge base research() returned
  gen,           \* per generation call: how the call ended, the status of
                 \* its promise, times called, the knowledge base it got
  files,         \* the files written so far, in order
  scoreLog,      \* every call of calculateSourceScore so far
  runs           \* how many times start() has been called

vars ==
  <<pc, startError, search, promise, arrival, results, now, allRefs,
    uniqueRefs, scored, references, knowledgeBase, gen, files, scoreLog, runs>>

\* The locals of research().
researchLocals == <<promise, arrival, results, allRefs, uniqueRefs, scored>>

\* ---------------------------------------------------------- search results

DateString(t) == [kind |-> "date", t |-> t]

GarbageDate == [kind |-> "garbage", t |-> 0]

EmptyDate == [kind |-> "empty", t |-> 0]

SearchItem(title, url, text, date) ==
  [title |-> title, url |-> url, text |-> text, publishedDate |-> date]

Results(items) == [kind |-> "results", items |-> items]

SearchError == [kind |-> "error", items |-> <<>>]

Digit == <<"1", "2", "3", "4", "5", "6", "7", "8", "9">>

Cycle(s, j) == s[((j - 1) % Len(s)) + 1]

\* The j-th result the search engine has for query q.  The first results of
\* the three queries are the same page under three spellings of its url, the
\* second ones a result without url, a url that does not parse and a www
\* host; the others are pages of their own, of varying length and date.
FeedItem(q, j) ==
  IF j = 1 THEN
    SearchItem(Some(Cycle(<<"Page", "PAGE", "Page (archived)">>, q)),
               Some(Cycle(<< <<"https://", "a", ".", "gov", "/", "x">>,
                             <<"HTTPS://", "A", ".", "gov", "/", "X", "/">>,
                             <<"https://", "a", ".", "gov", "/", "x", "/", "/">> >>, q)),
               Some(Cycle(<<300, 2500, 0>>, q)),
               None)
  ELSE IF j = 2 THEN
    SearchItem(None,
               Cycle(<< None,
                        Some(<<"b", ".", "com">>),
                        Some(<<"https://", "w", "w", "w", ".", "bbc", ".", "com">>) >>, q),
               Cycle(<< Some(100), None, Some(3000) >>, q),
               Some(DateString(Now0 - 10)))
  ELSE
    SearchItem(Some("Site"),
               Some(<<"https://", "s", Digit[q], ".", "com", "/", Digit[j]>>),
               Cycle(<< None, Some(199), Some(200), Some(2600) >>, j + q),
               Cycle(<< None, Some(GarbageDate), Some(DateString(Now0 - 364)),
                        Some(DateString(Now0 - 1000)), Some(EmptyDate) >>, j))

Feed(q) == [j \in 1..MaxResults |-> FeedItem(q, j)]

\* What a search can yield for query q: an error, or the first n results.
Outcomes(q) ==
  {SearchError} \cup {Results(Take(Feed(q), n)) : n \in 0..MaxResults}

\* ------------------------------------------------------------------- actions

NotStarted == [status |-> "unstarted", value |-> <<>>]

GenIdle == [call |-> "unstarted", status |-> "unstarted", calls |-> 0, kb |-> <<>>]

NoLocals ==
  /\ promise = [q \in Queries |-> NotStarted]
  /\ arrival = <<>>
  /\ results = [q \in Queries |-> <<>>]
  /\ allRefs = <<>>
  /\ uniqueRefs = <<>>
  /\ scored = <<>>

InitRun ==
  /\ pc = "start"
  /\ startError = None
  /\ NoLocals
  /\ now = Now0
  /\ references = <<>>
  /\ knowledgeBase = <<>>
  /\ gen = [c \in Gens |-> GenIdle]
  /\ files = <<>>
  /\ scoreLog = {}
  /\ runs = 0

Init ==
  /\ search \in [Queries -> UNION {Outcomes(q) : q \in Queries}]
  /\ \A q \in Queries : search[q] \in Outcomes(q)
  /\ InitRun

\* start() up to its first await (lines 104-114, 136-143): research() maps
\* every query to a search promise and awaits them all.
StartRun ==
  /\ pc = "start"
  /\ pc' = "await_search"
  /\ promise' = [q \in Queries |-> Pending]
  /\ runs' = runs + 1
  /\ UNCHANGED <<startError, search, arrival, results, now, allRefs,
                 uniqueRefs, scored, references, knowledgeBase, gen, files,
                 scoreLog>>

\* The search of query q settles (lines 139-143).  A fulfilled promise hands
\* its value to Promise.all, which fulfils with the last of them; a promise of
\* searchPromises that rejects makes Promise.all, research() and start()
\* reject.
SearchSettle(q) ==
  /\ pc = "await_search"
  /\ promise[q].status = "pending"
  /\ LET p == SearchPromise(search[q])
     IN /\ promise' = [promise EXCEPT ![q] = p]
        /\ arrival' = Append(arrival, q)
        /\ IF p.status = "rejected"
           THEN /\ pc' = "failed"
                /\ startError' = Some("search")
                /\ UNCHANGED results
           ELSE /\ results' = PromiseAllStore(results, q, Len(arrival'), p.value)
                /\ pc' = IF PromiseAllFulfilled(promise') THEN "flatten" ELSE pc
                /\ UNCHANGED startError
  /\ UNCHANGED <<search, now, allRefs, uniqueRefs, scored, references,
                 knowledgeBase, gen, files, scoreLog, runs>>

\* The clock readings of the calls of calculateSourceScore in one
\* scoreReferences over n references: the clock may advance once, after the
\* k-th call.
ClockReadings(n, k) == [i \in 1..n |-> IF i <= k THEN now ELSE now + TickDays]

\* The points at which the clock may advance during a scoreReferences over n
\* references: after the k-th call, k < n, or not at all (k = n).
ClockSteps(n) == {n} \cup (IF now < MaxNow THEN 1..(n - 1) ELSE {})

\* research() from the fulfilment of Promise.all to its return (lines
\* 144-153); the clock advances after the k-th call of calculateSourceScore.
ResearchReturn(k) ==
  /\ pc = "flatten"
  /\ allRefs' = Flat(results)
  /\ uniqueRefs' = deduplicateReferences(allRefs')
  /\ k \in ClockSteps(Len(uniqueRefs'))
  /\ scored' = SortedPairs(uniqueRefs', ClockReadings(Len(uniqueRefs'), k))
  /\ references' = RefsOf(scored')
  /\ knowledgeBase' = buildKnowledgeBase(references')
  /\ now' = IF k < Len(uniqueRefs') THEN now + TickDays ELSE now
  /\ pc' = "researched"
  /\ UNCHANGED <<startError, search, promise, arrival, results, gen, files,
                 runs>>

\* The calls of calculateSourceScore that ResearchReturn(k) makes (lines
\* 209-212): the run, the batch, the reference, the clock reading and the
\* score.
ScoreCalls(k) ==
  LET clocks == ClockReadings(Len(uniqueRefs'), k)
      pairs  == ScoredPairs(uniqueRefs', clocks)
  IN {[run |-> runs, batch |-> uniqueRefs', ref |-> pairs[i].ref,
       at |-> clocks[i], score |-> pairs[i].score] : i \in 1..Len(pairs)}

ResearchStep(k) == ResearchReturn(k) /\ UNCHANGED scoreLog

\* ResearchReturn(k), with its calls of calculateSourceScore recorded.
ResearchLogged(k) ==
  /\ ResearchReturn(k)
  /\ scoreLog' = scoreLog \cup ScoreCalls(k)

\* start() resumes with what research() returned and calls both generation
\* functions with the knowledge base (lines 114-122).  The search promises of
\* research() are gone; allRefs, uniqueRefs and scored keep the values
\* research() computed.
GenerateStart ==
  /\ pc = "researched"
  /\ pc' = "await_generate"
  /\ gen' = [c \in Gens |->
              [call |-> "pending", status |-> "pending",
               calls |-> gen[c].calls + 1, kb |-> knowledgeBase]]
  /\ promise' = [q \in Queries |-> NotStarted]
  /\ arrival' = <<>>
  /\ results' = [q \in Queries |-> <<>>]
  /\ UNCHANGED <<startError, search, now, allRefs, uniqueRefs, scored,
                 references, knowledgeBase, files, scoreLog, runs>>

\* Generation call c settles (lines 119-122).  The first rejection rejects
\* Promise.all and start(); the other call is not cancelled.  When both are
\* fulfilled start() goes on to saveToFiles.
GenSettle(c, ok) ==
  /\ gen[c].call = "pending"
  /\ LET call == IF ok THEN "ok" ELSE "error"
     IN gen' = [gen EXCEPT ![c].call = call,
                           ![c].status = GenerationPromise(call)]
  /\ IF pc = "await_generate" /\ gen'[c].status = "rejected"
     THEN pc' = "failed" /\ startError' = Some(c)
     ELSE IF pc = "await_generate" /\ \A d \in Gens : gen'[d].status = "fulfilled"
     THEN pc' = "save_dir" /\ UNCHANGED startError
     ELSE UNCHANGED <<pc, startError>>
  /\ UNCHANGED <<search, researchLocals, now, references, knowledgeBase,
                 files, scoreLog, runs>>

File(name, data) == [run |-> runs, name |-> name, data |-> data]

\* One awaited file operation of saveToFiles (lines 339-362): mkdir, then
\* facts.json, references.json and content.md; a failed operation rejects
\* saveToFiles and start().
SaveStep(ok) ==
  /\ pc \in {"save_dir", "save_facts", "save_refs", "save_content"}
  /\ IF ~ok
     THEN pc' = "failed" /\ startError' = Some("io") /\ UNCHANGED files
     ELSE /\ UNCHANGED startError
          /\ pc' = CASE pc = "save_dir" -> "save_facts"
                     [] pc = "save_facts" -> "save_refs"
                     [] pc = "save_refs" -> "save_content"
                     [] OTHER -> "done"
          /\ files' = CASE pc = "save_dir" -> files
                        [] pc = "save_facts" ->
                             Append(files, File("facts.json", <<>>))
                        [] pc = "save_refs" ->
                             Append(files, File("references.json",
                                                refsForExport(references)))
                        [] OTHER -> Append(files, File("content.md", <<>>))
  /\ UNCHANGED <<search, researchLocals, now, references, knowledgeBase, gen,
                 scoreLog, runs>>

\* Time passes.
Tick ==
  /\ now < MaxNow
  /\ now' = now + TickDays
  /\ UNCHANGED <<pc, startError, search, researchLocals, references,
                 knowledgeBase, gen, files, scoreLog, runs>>

Next ==
  \/ StartRun
  \/ \E q \in Queries : SearchSettle(q)
  \/ \E k \in 0..MaxRefs : ResearchStep(k)
  \/ GenerateStart
  \/ \E c \in Gens, ok \in BOOLEAN : GenSettle(c, ok)
  \/ \E ok \in BOOLEAN : SaveStep(ok)
  \/ Tick

Spec == Init /\ [][Next]_vars

\* ------------------------------------------------- other search results

SeqsUpTo(S, n) == UNION {[1..m -> S] : m \in 0..n}

\* research() awaits query 1, which will yield items; queries 2 and 3 have
\* yielded no results.
AwaitingQuery1(items) ==
  /\ search = [q \in Queries |-> IF q = 1 THEN Results(items) ELSE Results(<<>>)]
  /\ pc = "await_search"
  /\ startError = None
  /\ promise = [q \in Queries |-> IF q = 1 THEN Pending ELSE Fulfilled(<<>>)]
  /\ arrival = <<2, 3>>
  /\ results = [q \in Queries |-> <<>>]
  /\ now = Now0
  /\ allRefs = <<>>
  /\ uniqueRefs = <<>>
  /\ scored = <<>>
  /\ references = <<>>
  /\ knowledgeBase = <<>>
  /\ gen = [c \in Gens |-> GenIdle]
  /\ files = <<>>
  /\ scoreLog = {}
  /\ runs = 1

HostAlphabet == {"w", "W", "a", "."}

\* A hostname made of non-empty labels, or no hostname at all.
WellFormedHost(h) ==
  h = <<>> \/ (/\ h[1] # "."
               /\ h[Len(h)] # "."
               /\ \A i \in 1..(Len(h) - 1) : ~(h[i] = "." /\ h[i + 1] = "."))

\* Urls: a scheme or none, a host over HostAlphabet or none, a path or none.
HostUrls ==
  {scheme \o host \o path :
     scheme \in {<<"https://">>, <<"HTTPS://">>, <<>>},
     host \in {h \in SeqsUpTo(HostAlphabet, MaxHost) : WellFormedHost(h)},
     path \in {<<>>, <<"/", "X", "/">>}}

InitDomain ==
  \E u \in HostUrls :
    AwaitingQuery1(<<SearchItem(Some("Page"), Some(u), Some(300), None)>>)

NextDomain == \E q \in Queries : SearchSettle(q)

\* extractReferences and extractDomain over every url of HostUrls.
SpecDomain == InitDomain /\ [][NextDomain]_vars

\* Search results that collide under the deduplication key and tie in score.
PoolItems ==
  { SearchItem(Some("Page"), Some(<<"https://", "a", ".", "gov", "/", "x">>),
               Some(2500), None),
    SearchItem(Some("PAGE"), Some(<<"HTTPS://", "A", ".", "gov", "/", "X", "/">>),
               None, None),
    SearchItem(Some("Page"), Some(<<"https://", "a", ".", "gov", "/", "x", "/", "/">>),
               None, Some(EmptyDate)),
    SearchItem(Some("B"), Some(<<"https://", "b", ".", "com">>), None, None),
    SearchItem(None, Some(<<"c", ".", "com">>), Some(0), Some(GarbageDate)),
    SearchItem(Some("B2"), Some(<<"https://", "b", ".", "com", "/">>),
               Some(199), Some(DateString(Now0 - 364))),
    SearchItem(Some("D"), Some(<<"https://", "w", "w", "w", ".", "d", ".", "com">>),
               Some(1199), None),
    SearchItem(Some("E"), Some(<<"https://", "e", ".", "com">>), Some(200),
               Some(DateString(Now0 - 3 * DAYS_PER_YEAR))) }

InitPipeline == \E items \in SeqsUpTo(PoolItems, MaxLen) : AwaitingQuery1(items)

NextPipeline ==
  \/ \E q \in Queries : SearchSettle(q)
  \/ \E k \in 0..MaxRefs : ResearchStep(k)
  \/ Tick

\* deduplicateReferences and scoreReferences over every list of at most
\* MaxLen results of PoolItems.
SpecPipeline == InitPipeline /\ [][NextPipeline]_vars

RemoveAt(s, i) == SubSeq(s, 1, i - 1) \o SubSeq(s, i + 1, Len(s))

\* The loop of generate.ts (lines 70-73): after start() has returned for one
\* language it is called for the next one.  The search may have lost its
\* drop-th result for query 1 by then (none for drop = 0).
NextRun(drop) ==
  /\ pc = "done"
  /\ runs < MaxRuns
  /\ drop \in 0..Len(search[1].items)
  /\ search' = [search EXCEPT ![1] = Results(RemoveAt(search[1].items, drop))]
  /\ pc' = "await_search"
  /\ promise' = [q \in Queries |-> Pending]
  /\ runs' = runs + 1
  /\ gen' = [c \in Gens |-> GenIdle]
  /\ references' = <<>>
  /\ knowledgeBase' = <<>>
  /\ UNCHANGED <<startError, arrival, results, now, allRefs, uniqueRefs,
                 scored, files, scoreLog>>

InitScore ==
  /\ \E items \in SeqsUpTo(PoolItems, MaxBatch) :
       search = [q \in Queries |-> IF q = 1 THEN Results(items)
                                   ELSE IF q = 2 THEN SearchError
                                   ELSE Results(<<>>)]
  /\ InitRun

NextScore ==
  \/ StartRun
  \/ \E q \in Queries : SearchSettle(q)
  \/ \E k \in 0..MaxRefs : ResearchLogged(k)
  \/ GenerateStart
  \/ \E c \in Gens, ok \in BOOLEAN : GenSettle(c, ok)
  \/ \E ok \in BOOLEAN : SaveStep(ok)
  \/ Tick
  \/ \E drop \in 0..MaxBatch : NextRun(drop)

\* Successive runs of start(), every call of calculateSourceScore recorded.
SpecScore == InitScore /\ [][NextScore]_vars

\* Content lengths around the thresholds of calculateSourceScore.
Lengths == {0, 1, 199, 200, 201, 2499, 2500, 2501, MaxContent}

\* One page, on a preferred domain or not, dated or not, of every length.
LengthItems ==
  {SearchItem(Some("Page"), Some(u), text, date) :
     u \in {<<"https://", "a", ".", "gov", "/", "x">>,
            <<"https://", "b", ".", "com">>},
     text \in {None} \cup {Some(n) : n \in Lengths},
     date \in {None, Some(DateString(Now0 - 364))}}

InitLength ==
  /\ \E item \in LengthItems :
       search = [q \in Queries |-> IF q = 1 THEN Results(<<item>>)
                                   ELSE Results(<<>>)]
  /\ InitRun

\* The loop of generate.ts (lines 70-73), the text of the page having changed
\* to length len before start() is called for the next language.
NextRunGrown(len) ==
  /\ pc = "done"
  /\ runs < MaxRuns
  /\ search' = [search EXCEPT ![1] =
                  Results(<<[search[1].items[1] EXCEPT !.text = Some(len)]>>)]
  /\ pc' = "await_search"
  /\ promise' = [q \in Queries |-> Pending]
  /\ runs' = runs + 1
  /\ gen' = [c \in Gens |-> GenIdle]
  /\ references' = <<>>
  /\ knowledgeBase' = <<>>
  /\ UNCHANGED <<startError, arrival, results, now, allRefs, uniqueRefs,
                 scored, files, scoreLog>>

NextLength ==
  \/ StartRun
  \/ \E q \in Queries : SearchSettle(q)
  \/ \E k \in 0..MaxRefs : ResearchLogged(k)
  \/ GenerateStart
  \/ \E c \in Gens, ok \in BOOLEAN : GenSettle(c, ok)
  \/ \E ok \in BOOLEAN : SaveStep(ok)
  \/ Tick
  \/ \E len \in Lengths : NextRunGrown(len)

\* Successive runs of start() over one page whose text changes in length.
SpecLength == InitLength /\ [][NextLength]_vars

\* ==================================================================== claims

\* What query q contributes: the references of its results, nothing if its
\* search failed.
Contribution(q) ==
  IF search[q].kind = "error" THEN <<>> ELSE extractReferences(search[q].items)

Range(s) == {s[i] : i \in 1..Len(s)}

ResearchRaised == pc = "failed" /\ startError = Some("search")

\* research() has returned in this run.
Researched ==
  pc \in {"researched", "await_generate", "save_dir", "save_facts",
          "save_refs", "save_content", "done", "failed"}

\* The queries whose search succeeded, in query order.
SucceededQueries == SelectSeq([q \in Queries |-> q],
                              LAMBDA q : search[q].kind = "results")

\* C1: research() never raises, whatever subset of the searches fails, and
\* the references it returns are exactly the deduplicated references of the
\* queries that succeeded, ranked: a failed query contributes nothing and
\* leaves the contributions of the other queries as they are.
C1_FaultIsolation ==
  /\ ~ResearchRaised
  /\ \A q \in Queries :
       promise[q].status \notin {"unstarted", "pending"} =>
         /\ promise[q].status = "fulfilled"
         /\ promise[q].value = Contribution(q)
  /\ pc = "researched" =>
       LET succeeded == SucceededQueries
           flat == Flat([i \in 1..Len(succeeded) |->
                           extractReferences(search[succeeded[i]].items)])
       IN /\ allRefs = flat
          /\ Len(references) = Len(deduplicateReferences(flat))
          /\ Range(references) = Range(deduplicateReferences(flat))
          /\ references = RefsOf(scored)
          /\ \A i, j \in 1..Len(scored) : i < j => scored[i].score >= scored[j].score

\* C1, reached: query 2 failed, queries 1 and 3 did not, and research() has
\* returned the references of both.
C1_Witness ==
  /\ pc = "researched"
  /\ search[2].kind = "error"
  /\ \E r \in Range(references) : r \in Range(Contribution(1))
  /\ \E r \in Range(references) :
       r \in Range(Contribution(3)) /\ r \notin Range(Contribution(1))

\* C2: whatever the order in which the searches settle, Promise.all holds the
\* value of every fulfilled search at the index of its query, and the
\* flattened sequence is the concatenation of the per-query lists in query
\* order, each in its own order; what is deduplicated, ranked and assembled is
\* that sequence.
C2_PositionalJoin ==
  /\ pc \in {"await_search", "flatten", "researched"} =>
       \A q \in Queries :
         results[q] = IF promise[q].status = "fulfilled" THEN Contribution(q)
                      ELSE <<>>
  /\ pc = "researched" =>
       /\ allRefs = Contribution(1) \o Contribution(2) \o Contribution(3)
       /\ uniqueRefs = deduplicateReferences(allRefs)
       /\ Range(references) = Range(uniqueRefs)
       /\ knowledgeBase = buildKnowledgeBase(references)

\* C2, reached: the searches settled in the order 3, 1, 2, each with results,
\* and research() has returned.
C2_Witness ==
  /\ pc = "researched"
  /\ arrival = <<3, 1, 2>>
  /\ \A q \in Queries : Len(Contribution(q)) >= 2
  /\ Contribution(1) # Contribution(3)

GenFailed == {c \in Gens : gen[c].call = "error"}

\* C3: as soon as a generation call has failed, start() has failed with the
\* error of a failed generation call (of the one that failed, if only one
\* did), no file of the run is written, and no generation function is called
\* a second time.
C3_GenerationFatal ==
  /\ GenFailed # {} =>
       /\ pc = "failed"
       /\ \E c \in GenFailed : startError = Some(c)
       /\ \A i \in 1..Len(files) : files[i].run # runs
  /\ \A c \in Gens : gen[c].calls <= 1

\* C3, reached: the article call failed after the infobox call succeeded.
C3_Witness ==
  /\ gen["infobox"].call = "ok"
  /\ gen["article"].call = "error"
  /\ pc = "failed"
  /\ startError = Some("article")

NoEvidence == \A q \in Queries : Contribution(q) = <<>>

\* C4: when no query contributes a reference, research() does not raise and
\* returns no references and the empty knowledge base, and start() goes on
\* to call both generation functions, once each, with the empty knowledge
\* base.
C4_ZeroEvidence ==
  NoEvidence =>
    /\ ~ResearchRaised
    /\ Researched => references = <<>> /\ knowledgeBase = <<>>
    /\ Researched /\ pc # "researched" =>
         \A c \in Gens : gen[c].calls = 1 /\ gen[c].kb = <<>>

\* C4, reached: one search failed, another had no result, none contributed,
\* and both generation calls are under way.
C4_Witness ==
  /\ NoEvidence
  /\ \E q \in Queries : search[q].kind = "error"
  /\ \E q \in Queries : search[q] = Results(<<>>)
  /\ pc = "await_generate"
  /\ \A c \in Gens : gen[c].call = "pending" /\ gen[c].kb = <<>>

\* The key of the claim: the url lowercased, one trailing slash removed.
ClaimKey(ref) == StripTrailingSlash(ToLowerCase(ref.url))

\* The positions of refs whose key does not occur earlier in refs.
FirstOccurrences(refs) ==
  {i \in 1..Len(refs) :
     \A j \in 1..(i - 1) : ClaimKey(refs[j]) # ClaimKey(refs[i])}

\* The m-th smallest element of the set I of numbers.
NthOf(I, m) == CHOOSE i \in I : Cardinality({j \in I : j < i}) = m - 1

\* C5: deduplicateReferences(refs) is the subsequence of refs at the
\* positions whose key does not occur earlier: no two survivors share a key,
\* every key of the input survives, and the first reference of a key is the
\* one kept.
C5_DedupFirstWins ==
  LET keep == FirstOccurrences(allRefs)
  IN /\ Len(uniqueRefs) = Cardinality(keep)
     /\ \A m \in 1..Len(uniqueRefs) : uniqueRefs[m] = allRefs[NthOf(keep, m)]
     /\ \A m, n \in 1..Len(uniqueRefs) :
          m # n => ClaimKey(uniqueRefs[m]) # ClaimKey(uniqueRefs[n])
     /\ {ClaimKey(r) : r \in Range(uniqueRefs)} = {ClaimKey(r) : r \in Range(allRefs)}

\* C5, reached: a later reference with the key of an earlier one, but another
\* url and title, was dropped and the earlier one kept.
C5_Witness ==
  /\ pc = "researched"
  /\ Len(uniqueRefs) >= 2
  /\ \E i, j \in 1..Len(allRefs) :
       /\ i < j
       /\ ClaimKey(allRefs[i]) = ClaimKey(allRefs[j])
       /\ allRefs[i].url # allRefs[j].url
       /\ allRefs[i].title # allRefs[j].title
       /\ allRefs[i].content # allRefs[j].content
       /\ allRefs[i] \in Range(uniqueRefs)
       /\ allRefs[j] \notin Range(uniqueRefs)

PositionIn(s, x) == CHOOSE i \in 1..Len(s) : s[i] = x

ClockValues == {Now0 + i * TickDays : i \in 0..MaxTicks}

\* C6: the ranked list is a permutation of the deduplicated list, each
\* reference with the score computed for it; scores do not increase along it
\* and references of equal score keep the order they had before; the empty
\* list ranks to the empty list.
C6_StableRanking ==
  /\ Len(scored) = Len(uniqueRefs)
  /\ Range(RefsOf(scored)) = Range(uniqueRefs)
  /\ pc = "researched" => references = RefsOf(scored)
  /\ \A i \in 1..Len(scored) :
       \E t \in ClockValues :
         scored[i].score = calculateSourceScore(scored[i].ref, t)
  /\ \A i, j \in 1..Len(scored) :
       i < j =>
         /\ scored[i].score >= scored[j].score
         /\ scored[i].score = scored[j].score =>
              PositionIn(uniqueRefs, scored[i].ref)
                < PositionIn(uniqueRefs, scored[j].ref)
  /\ uniqueRefs = <<>> => references = <<>>

\* C6, reached: three references were ranked, ranking moved one of them, and
\* two of them tie.
C6_Witness ==
  /\ pc = "researched"
  /\ Len(scored) = 3
  /\ references # uniqueRefs
  /\ \E i \in 1..2 : scored[i].score = scored[i + 1].score

IsSource(b) == b.tag = "source"

SourceBlocks == SelectSeq(knowledgeBase, IsSource)

\* C7: the knowledge base holds min(N, 15) source blocks for N ranked
\* references: the first ones of the ranked list in rank order, numbered from
\* 1, separated by blank lines; never more than 15, and it is the empty
\* string for N = 0.
C7_KnowledgeBaseCap ==
  LET n == Len(references)
      blocks == SourceBlocks
  IN /\ Len(blocks) = IF n < 15 THEN n ELSE 15
     /\ Len(blocks) <= 15
     /\ \A i \in 1..Len(blocks) :
          blocks[i] = [tag |-> "source", id |-> i,
                       title |-> references[i].title, url |-> references[i].url,
                       domain |-> references[i].domain,
                       content |-> references[i].content]
     /\ n = 0 => knowledgeBase = <<>>
     /\ n > 0 => Len(knowledgeBase) = 2 * Len(blocks) - 1

\* C7, reached: research() returned more than 15 references and a knowledge
\* base of 15 blocks.
C7_Witness ==
  /\ pc = "researched"
  /\ Len(references) > 15
  /\ Len(SourceBlocks) = 15

\* The references.json files of the current run.
ExportFiles ==
  {i \in 1..Len(files) : files[i].name = "references.json" /\ files[i].run = runs}

\* C8: references.json has one entry per reference of the deduplicated,
\* ranked list, however many there are; the entry at position i is the
\* reference of rank i with id i.
C8_ExportIds ==
  \A f \in ExportFiles :
    LET data == files[f].data
    IN /\ Len(data) = Len(uniqueRefs)
       /\ Len(data) = Len(scored)
       /\ \A i \in 1..Len(data) :
            data[i] = [id |-> i, title |-> scored[i].ref.title,
                       url |-> scored[i].ref.url,
                       domain |-> scored[i].ref.domain,
                       publishedDate |-> scored[i].ref.publishedDate]
       /\ \A i, j \in 1..Len(scored) :
            i < j => scored[i].score >= scored[j].score

\* C8, reached: a run ended with more than 15 references exported, in an
\* order that is not the order of discovery.
C8_Witness ==
  /\ pc = "done"
  /\ \E f \in ExportFiles :
       /\ Len(files[f].data) > 15
       /\ \E i \in 1..Len(uniqueRefs) : files[f].data[i].url # uniqueRefs[i].url

\* The host as the url spells it.
RawHost(url) == SubSeq(url, 2, FirstSlash(url, 2) - 1)

\* h without a leading "www.".
StripWwwPrefix(h) ==
  IF OccursAt(h, WWW_DOT, 1) THEN SubSeq(h, Len(WWW_DOT) + 1, Len(h)) ELSE h

\* C9: the domain of a reference whose url parses is the hostname of the url,
\* lowercased, without a leading "www.", and otherwise unchanged.
C9_DomainNormalized ==
  \A q \in Queries :
    \A i \in 1..Len(promise[q].value) :
      LET r == promise[q].value[i]
      IN URLParses(r.url) =>
           r.domain = StripWwwPrefix(ToLowerCase(RawHost(r.url)))

SameFields(a, b) ==
  /\ a.domain = b.domain
  /\ a.url = b.url
  /\ a.content = b.content
  /\ a.publishedDate = b.publishedDate

\* C10 as claimed: two calls of calculateSourceScore on references with the
\* same domain, url, content and publishedDate give the same score, at
\* whatever moments and in whatever batches they are made.
C10_ScorePure ==
  \A e1, e2 \in scoreLog :
    SameFields(e1.ref, e2.ref) => e1.score = e2.score

\* C10, amended: two calls of calculateSourceScore on references with the
\* same domain, url, content and publishedDate, made at the same clock
\* reading, give the same score, in whatever batches they are made.
C10_ScorePureAtInstant ==
  \A e1, e2 \in scoreLog :
    SameFields(e1.ref, e2.ref) /\ e1.at = e2.at => e1.score = e2.score

\* C10, reached: a reference was scored in two runs, in different batches,
\* at the same clock reading.
C10_Witness ==
  \E e1, e2 \in scoreLog :
    /\ e1.run # e2.run
    /\ e1.batch # e2.batch
    /\ SameFields(e1.ref, e2.ref)
    /\ e1.at = e2.at
    /\ e1.ref.publishedDate # None

\* The reference ref without its publishedDate.
Undated(ref) == [ref EXCEPT !.publishedDate = None]

\* The publishedDate of ref is present and does not parse to a valid date.
MalformedDate(ref) ==
  ref.publishedDate # None /\ ref.publishedDate[1].kind = "garbage"

\* C11: a reference whose publishedDate is present but does not parse is
\* scored without an error: research() returns once the searches have
\* settled, with a score for every reference of the batch, and the score of
\* such a reference is the score the same reference has without
\* publishedDate, its recency bonus being 0.
C11_MalformedDate ==
  /\ pc = "failed" => startError \in {Some(c) : c \in Gens \cup {"io"}}
  /\ (pc = "researched" /\ runs >= 1) =>
       \A r \in Range(uniqueRefs) :
         \E e \in scoreLog : e.run = runs /\ e.ref = r
  /\ \A e \in scoreLog :
       MalformedDate(e.ref) =>
         /\ e.score = calculateSourceScore(Undated(e.ref), e.at)
         /\ e.score = AuthorityBonus(e.ref) + SubstanceBonus(e.ref)
                        - BrevityPenalty(e.ref)

\* C11, reached: research() has returned with a reference whose date does
\* not parse, next to one whose date earned a recency bonus.
C11_Witness ==
  /\ pc = "researched"
  /\ \E e \in scoreLog : e.run = runs /\ MalformedDate(e.ref)
  /\ \E e \in scoreLog :
       /\ e.run = runs
       /\ e.score > calculateSourceScore(Undated(e.ref), e.at)


\* References a and b are identical except for the length of content.
SameExceptContent(a, b) ==
  /\ a.title = b.title
  /\ a.url = b.url
  /\ a.domain = b.domain
  /\ a.publishedDate = b.publishedDate

\* C12: of two references identical except for the length of content, scored
\* at the same instant, the one with the longer content never scores lower;
\* from 2500 characters on the substance bonus is 5 whatever the length, and
\* a content under 200 characters, which loses 3, never scores above a
\* longer one.
C12_ScoreMonotone ==
  /\ \A e1, e2 \in scoreLog :
       (/\ SameExceptContent(e1.ref, e2.ref)
        /\ e1.at = e2.at
        /\ e1.ref.content <= e2.ref.content) => e1.score <= e2.score
  /\ \A e \in scoreLog :
       e.ref.content >= 2500 =>
         e.score = AuthorityBonus(e.ref) + RecencyBonus(e.ref, e.at)
                     + 5 * CONTENT_UNIT

\* C12, reached: the same page has been scored at one instant with 199
\* characters, under the penalty, and with more than 2500, at the cap.
C12_Witness ==
  \E e1, e2 \in scoreLog :
    /\ SameExceptContent(e1.ref, e2.ref) /\ e1.at = e2.at
    /\ e1.ref.content = 199 /\ e2.ref.content > 2500
    /\ e1.score < e2.score


\* The source blocks of the knowledge base generation call c was given.
CitedBlocks(c) == SelectSeq(gen[c].kb, IsSource)

\* C13: in a run that wrote references.json, the knowledge base both
\* generation calls were given and the export number the same ranked list:
\* the block with source id i and the exported entry with id i, for i up to
\* min(N, 15), are the same reference (same url, title and domain), and no
\* entry with an id above 15 is a source of the knowledge base.
C13_CitationIds ==
  \A f \in ExportFiles : \A c \in Gens :
    LET data == files[f].data
        blocks == CitedBlocks(c)
    IN /\ Len(blocks) = IF Len(data) < 15 THEN Len(data) ELSE 15
       /\ \A i \in 1..Len(blocks) :
            /\ blocks[i].id = i
            /\ data[i].id = i
            /\ blocks[i].url = data[i].url
            /\ blocks[i].title = data[i].title
            /\ blocks[i].domain = data[i].domain
       /\ \A i \in 1..Len(blocks), j \in 1..Len(data) :
            blocks[i].id = data[j].id <=> blocks[i].url = data[j].url
       /\ \A j \in 1..Len(data) :
            data[j].id > 15 =>
              \A i \in 1..Len(blocks) : blocks[i].url # data[j].url

\* C13, reached: a run succeeded with more than 15 references exported, 15
\* of them cited in the knowledge base, the first and the last of different
\* pages.
C13_Witness ==
  /\ pc = "done"
  /\ \E f \in ExportFiles :
       /\ Len(files[f].data) > 15
       /\ Len(CitedBlocks("article")) = 15
       /\ files[f].data[1].url # files[f].data[Len(files[f].data)].url


\* The names of the files the current run has written, in order.
RunFiles ==
  LET mine == SelectSeq(files, LAMBDA f : f.run = runs)
  IN [i \in 1..Len(mine) |-> mine[i].name]

Artifacts == <<"facts.json", "references.json", "content.md">>

\* The files of the run are the first artifacts, in the order facts,
\* references, content; there are some only if both generation calls have
\* succeeded, and none if one has failed.
FilesInOrder ==
  /\ Len(RunFiles) <= Len(Artifacts)
  /\ RunFiles = SubSeq(Artifacts, 1, Len(RunFiles))
  /\ RunFiles # <<>> => \A c \in Gens : gen[c].call = "ok"
  /\ GenFailed # {} => RunFiles = <<>>
  /\ pc = "done" => RunFiles = Artifacts

\* A step that starts a generation call finds every search settled, and a
\* step that writes a file finds both generation calls fulfilled.
PhaseStep ==
  /\ (\E c \in Gens : gen[c].call # "pending" /\ gen'[c].call = "pending") =>
       /\ \A q \in Queries : promise[q].status \in {"fulfilled", "rejected"}
       /\ Range(arrival) = Queries
       /\ \A c \in Gens : gen[c].call = "unstarted" /\ gen'[c].call = "pending"
  /\ files' # files =>
       /\ \A c \in Gens : gen[c].call = "ok" /\ gen[c].status = "fulfilled"
       /\ gen' = gen

\* C14: in every run no generation call starts before every search has
\* settled, with results or with an error, and no file is written before
\* both generation calls have succeeded; a run with a failed generation call
\* writes no file, and a run that writes files writes facts.json, then
\* references.json, then content.md.
C14_PhaseOrdering == []FilesInOrder /\ [][PhaseStep]_vars

\* C14, reached: a run in which a search failed and both generation calls
\* succeeded has written its three files.
C14_Witness ==
  /\ pc = "done"
  /\ \E q \in Queries : search[q].kind = "error"
  /\ \E q \in Queries : Len(Contribution(q)) > 0
  /\ RunFiles = Artifacts


=============================================================================
